---------------------------- MODULE Spec2Model ----------------------------
(***************************************************************************)
(* Model of the beancount core data types: Amount / IncompleteAmount,      *)
(* Account / AccountType, Booking, Date, BcOption, CostSpec, Posting,      *)
(* Transaction and Ledger.                                                 *)
(*                                                                         *)
(* A Rust String that the code takes apart (split, join, byte order) is a  *)
(* sequence of one-character strings.  A String that the code only matches *)
(* against literals or compares for equality is a TLA+ string.             *)
(* Option<T> is a sequence of length at most one: None is << >>, Some(v)   *)
(* is <<v>>.  A rust_decimal Decimal is a record [m, s] standing for       *)
(* m * 10^(-s).                                                            *)
(***************************************************************************)
EXTENDS Integers, Sequences, FiniteSets, TLC

VARIABLES arg, call, ledger

vars == <<arg, call, ledger>>

-----------------------------------------------------------------------------
(* Bounds of the model *)

MaxMant == 1
MaxScale == 1
MaxTail == 3
MaxPostings == 2
MaxDirectives == 1
MaxDated == 3
MaxParts == 2

-----------------------------------------------------------------------------
(* Option<T> *)

None == << >>

Some(v) == <<v>>

IsSome(o) == Len(o) = 1

-----------------------------------------------------------------------------
(* rust_decimal::Decimal *)

RECURSIVE Pow10(_)
Pow10(n) == IF n = 0 THEN 1 ELSE 10 * Pow10(n - 1)

Dec(m, s) == [m |-> m, s |-> s]

\* Decimal values with every scale up to MaxScale, among them equal numbers
\* written with different scales (1 and 1.0).
Decimals ==
    UNION {{Dec(m * Pow10(k), s) : m \in (-MaxMant)..MaxMant, k \in 0..s} :
              s \in 0..MaxScale}

\* Decimal::cmp: both mantissas are rescaled to the larger scale and compared.
Decimal_cmp(x, y) ==
    LET sc == IF x.s > y.s THEN x.s ELSE y.s
        a  == x.m * Pow10(sc - x.s)
        b  == y.m * Pow10(sc - y.s)
    IN  IF a < b THEN "Less" ELSE IF a = b THEN "Equal" ELSE "Greater"

-----------------------------------------------------------------------------
(* Currency = String *)

Currencies == {"USD", "CAD"}

-----------------------------------------------------------------------------
(* Amount and IncompleteAmount *)

Amount(num, currency) == [num |-> num, currency |-> currency]

IncompleteAmount(num, currency) == [num |-> num, currency |-> currency]

Amounts == {Amount(n, c) : n \in Decimals, c \in Currencies}

IncompleteAmounts ==
    {IncompleteAmount(n, c) :
        n \in {None} \cup {Some(d) : d \in Decimals},
        c \in {None} \cup {Some(k) : k \in Currencies}}

Amount_partial_cmp_AnyCurrency(a, b) == Some(Decimal_cmp(a.num, b.num))

\* impl PartialOrd for Amount
Amount_partial_cmp(a, b) ==
    IF a.currency = b.currency
    THEN Some(Decimal_cmp(a.num, b.num))
    ELSE None

Amount_try_from_NumOnly(val) ==
    IF IsSome(val.num)
    THEN [kind |-> "Ok",
          value |-> Amount(val.num[1],
                           IF IsSome(val.currency) THEN val.currency[1] ELSE "")]
    ELSE [kind |-> "Err"]

\* impl TryFrom<IncompleteAmount> for Amount; the error type is ().
Amount_try_from(val) ==
    IF IsSome(val.num) /\ IsSome(val.currency)
    THEN [kind |-> "Ok", value |-> Amount(val.num[1], val.currency[1])]
    ELSE [kind |-> "Err"]

\* impl From<Amount> for IncompleteAmount
IncompleteAmount_from(val) ==
    IncompleteAmount(Some(val.num), Some(val.currency))

-----------------------------------------------------------------------------
(* Strings the code takes apart: sequences of one-character strings *)

Colon == ":"

S_Assets == <<"A", "s", "s", "e", "t", "s">>
S_Liabilities == <<"L", "i", "a", "b", "i", "l", "i", "t", "i", "e", "s">>
S_Equity == <<"E", "q", "u", "i", "t", "y">>
S_Income == <<"I", "n", "c", "o", "m", "e">>
S_Expenses == <<"E", "x", "p", "e", "n", "s", "e", "s">>
S_Activa == <<"A", "c", "t", "i", "v", "a">>
S_assets == <<"a", "s", "s", "e", "t", "s">>
S_Asset == <<"A", "s", "s", "e", "t">>
S_Cash == <<"C", "a", "s", "h">>
S_InvalidAccountType ==
    <<"I", "n", "v", "a", "l", "i", "d", " ", "a", "c", "c", "o", "u", "n", "t",
      " ", "t", "y", "p", "e", ":", " ">>

RECURSIVE SeqsUpTo(_, _)
SeqsUpTo(S, n) ==
    IF n = 0 THEN {<< >>}
    ELSE LET shorter == SeqsUpTo(S, n - 1)
         IN  shorter \cup {Append(t, c) : t \in shorter, c \in S}

\* str::split(":"): the pieces between the separators; one piece more than
\* there are separators, the empty string giving one empty piece.
RECURSIVE SplitFrom(_, _, _)
SplitFrom(s, i, cur) ==
    IF i > Len(s) THEN <<cur>>
    ELSE IF s[i] = Colon THEN <<cur>> \o SplitFrom(s, i + 1, << >>)
    ELSE SplitFrom(s, i + 1, Append(cur, s[i]))

Split(s) == SplitFrom(s, 1, << >>)

\* [String]::join(":")
RECURSIVE Join(_)
Join(parts) ==
    IF Len(parts) = 0 THEN << >>
    ELSE IF Len(parts) = 1 THEN parts[1]
    ELSE parts[1] \o <<Colon>> \o Join(Tail(parts))

-----------------------------------------------------------------------------
(* AccountType and Account *)

AccountTypes == {"Assets", "Liabilities", "Equity", "Income", "Expenses"}

\* AccountType::default_name
default_name(t) ==
    CASE t = "Assets" -> S_Assets
      [] t = "Liabilities" -> S_Liabilities
      [] t = "Equity" -> S_Equity
      [] t = "Income" -> S_Income
      [] t = "Expenses" -> S_Expenses

\* impl From<&str> for AccountType: a value, or a panic with its message
AccountType_from(s) ==
    CASE s = S_Assets -> [kind |-> "Ok", value |-> "Assets"]
      [] s = S_Liabilities -> [kind |-> "Ok", value |-> "Liabilities"]
      [] s = S_Equity -> [kind |-> "Ok", value |-> "Equity"]
      [] s = S_Income -> [kind |-> "Ok", value |-> "Income"]
      [] s = S_Expenses -> [kind |-> "Ok", value |-> "Expenses"]
      [] OTHER -> [kind |-> "Panic", msg |-> S_InvalidAccountType \o s]

\* Account::builder().account_type(t).parts(p).build()
Account(account_type, parts) == [account_type |-> account_type, parts |-> parts]

Account_from_SkipEmpty(s) ==
    LET parts == Split(s)
        t     == AccountType_from(parts[1])
    IN  IF t.kind = "Ok"
        THEN [kind |-> "Ok",
              value |-> Account(t.value,
                                SelectSeq(Tail(parts), LAMBDA p : Len(p) > 0))]
        ELSE t

\* impl From<&str> for Account
Account_from(s) ==
    LET parts == Split(s)
        t     == AccountType_from(parts[1])
    IN  IF t.kind = "Ok"
        THEN [kind |-> "Ok", value |-> Account(t.value, Tail(parts))]
        ELSE t

Account_to_string_AlwaysColon(a) ==
    default_name(a.account_type) \o <<Colon>> \o Join(a.parts)

\* impl Display for Account
Account_to_string(a) ==
    IF Len(a.parts) = 0
    THEN default_name(a.account_type)
    ELSE default_name(a.account_type) \o <<Colon>> \o Join(a.parts)

\* Account names handed to Account::from: a first word, which is or is not a
\* root name, followed by up to MaxTail more characters.
NameHeads ==
    {S_Assets, S_Liabilities, S_Equity, S_Income, S_Expenses,
     << >>, S_Activa, S_assets, S_Asset}

TailChars == {Colon, "U", "s"}

AccountNames == {h \o t : h \in NameHeads, t \in SeqsUpTo(TailChars, MaxTail)}

\* Strings given to the builder as parts: the empty string, a word, and
\* strings that hold the separator.
PartTexts == {<< >>, <<"U">>, <<"U", Colon, "s">>, <<Colon>>}

\* Accounts made with the builder, with up to MaxParts parts.
BuiltAccounts ==
    {Account(t, ps) : t \in AccountTypes, ps \in SeqsUpTo(PartTexts, MaxParts)}

-----------------------------------------------------------------------------
(* Booking *)

Bookings == {"Strict", "StrictWithSize", "None", "Average", "Fifo", "Lifo"}

\* Tokens handed to Booking::try_from: the six names, and near misses.
BookingTokens ==
    {"STRICT", "STRICT_WITH_SIZE", "NONE", "AVERAGE", "FIFO", "LIFO",
     "strict", "Strict", " STRICT", "STRICT ", "", "fifo", "Fifo", "lifo",
     "none", "None", "average", "STRICT_WITH_SIZES", "STRICT-WITH-SIZE",
     "STRICTWITHSIZE", "NONE\n", "\tLIFO", "FIFO LIFO", "AVG"}

Booking_try_from_FifoLifoSwapped(val) ==
    CASE val = "STRICT" -> [kind |-> "Ok", value |-> "Strict"]
      [] val = "STRICT_WITH_SIZE" -> [kind |-> "Ok", value |-> "StrictWithSize"]
      [] val = "NONE" -> [kind |-> "Ok", value |-> "None"]
      [] val = "AVERAGE" -> [kind |-> "Ok", value |-> "Average"]
      [] val = "FIFO" -> [kind |-> "Ok", value |-> "Lifo"]
      [] val = "LIFO" -> [kind |-> "Ok", value |-> "Fifo"]
      [] OTHER -> [kind |-> "Err"]

\* impl TryFrom<&str> for Booking; the error type is ().
Booking_try_from(val) ==
    CASE val = "STRICT" -> [kind |-> "Ok", value |-> "Strict"]
      [] val = "STRICT_WITH_SIZE" -> [kind |-> "Ok", value |-> "StrictWithSize"]
      [] val = "NONE" -> [kind |-> "Ok", value |-> "None"]
      [] val = "AVERAGE" -> [kind |-> "Ok", value |-> "Average"]
      [] val = "FIFO" -> [kind |-> "Ok", value |-> "Fifo"]
      [] val = "LIFO" -> [kind |-> "Ok", value |-> "Lifo"]
      [] OTHER -> [kind |-> "Err"]

-----------------------------------------------------------------------------
(* Date *)

DigitChars == <<"0", "1", "2", "3", "4", "5", "6", "7", "8", "9">>

\* The byte of a character of a date text (ASCII).
ByteOf(c) ==
    CASE c = "+" -> 43
      [] c = "-" -> 45
      [] c = "/" -> 47
      [] OTHER -> 47 + (CHOOSE i \in 1..10 : DigitChars[i] = c)

\* The decimal digits of a natural number.
RECURSIVE Digits(_)
Digits(n) ==
    IF n < 10 THEN <<DigitChars[n + 1]>>
    ELSE Append(Digits(n \div 10), DigitChars[(n % 10) + 1])

RECURSIVE ZeroPad(_, _)
ZeroPad(s, w) == IF Len(s) >= w THEN s ELSE ZeroPad(<<"0">> \o s, w)

\* Date::from_str_unchecked: the text is kept as it is.
Date_from_str_unchecked(s) == s

\* Date::from_string_unchecked: the text is kept as it is.
Date_from_string_unchecked(s) == s

\* NaiveDate::format("%Y-%m-%d"): the year zero-padded to four digits, with a
\* sign when it is outside 0..9999; month and day zero-padded to two digits.
NaiveDate_format(d) ==
    LET year == IF d.y >= 0 /\ d.y <= 9999
                THEN ZeroPad(Digits(d.y), 4)
                ELSE IF d.y > 9999
                     THEN <<"+">> \o ZeroPad(Digits(d.y), 4)
                     ELSE <<"-">> \o ZeroPad(Digits(0 - d.y), 4)
    IN  year \o <<"-">> \o ZeroPad(Digits(d.m), 2)
             \o <<"-">> \o ZeroPad(Digits(d.d), 2)

\* impl From<NaiveDate> for Date
Date_from_NaiveDate(d) == Date_from_string_unchecked(NaiveDate_format(d))

\* String's Ord: the bytes are compared in order, a proper prefix being less.
RECURSIVE String_cmp(_, _)
String_cmp(x, y) ==
    IF Len(x) = 0 /\ Len(y) = 0 THEN "Equal"
    ELSE IF Len(x) = 0 THEN "Less"
    ELSE IF Len(y) = 0 THEN "Greater"
    ELSE IF ByteOf(x[1]) < ByteOf(y[1]) THEN "Less"
    ELSE IF ByteOf(x[1]) > ByteOf(y[1]) THEN "Greater"
    ELSE String_cmp(Tail(x), Tail(y))

\* #[derive(Ord, PartialOrd, Eq, PartialEq)] on Date(String)
Date_cmp(d1, d2) == String_cmp(d1, d2)

\* Calendar days, and the ways a Date of a day is made: from a text "Y-M-D"
\* or "Y/M/D" with all the digits of the year, or from a NaiveDate.
Years == {2014, 2020, 10000}

Months == {2, 11}

Days == {3, 21}

CalendarDays == [y : Years, m : Months, d : Days]

DateText(c, sep) ==
    ZeroPad(Digits(c.y), 4) \o <<sep>> \o ZeroPad(Digits(c.m), 2)
        \o <<sep>> \o ZeroPad(Digits(c.d), 2)

DateInputs ==
    {[via |-> v, day |-> c, sep |-> sp] :
        v \in {"from_str_unchecked", "from_string_unchecked"},
        c \in CalendarDays, sp \in {"-", "/"}}
    \cup {[via |-> "From<NaiveDate>", day |-> c, sep |-> "-"] : c \in CalendarDays}

MakeDate(i) ==
    CASE i.via = "from_str_unchecked" ->
            Date_from_str_unchecked(DateText(i.day, i.sep))
      [] i.via = "from_string_unchecked" ->
            Date_from_string_unchecked(DateText(i.day, i.sep))
      [] i.via = "From<NaiveDate>" -> Date_from_NaiveDate(i.day)

-----------------------------------------------------------------------------
(* BcOption *)

\* BcOption::builder().name(n).val(v).build()
BcOption(name, val) ==
    [kind |-> "Option", name |-> name, val |-> val, source |-> None]

\* BcOption::root_name_change
root_name_change(o) ==
    CASE o.name = "name_assets" -> Some(<<"Assets", o.val>>)
      [] o.name = "name_liabilities" -> Some(<<"Liabilities", o.val>>)
      [] o.name = "name_equity" -> Some(<<"Equity", o.val>>)
      [] o.name = "name_income" -> Some(<<"Income", o.val>>)
      [] o.name = "name_expenses" -> Some(<<"Expenses", o.val>>)
      [] OTHER -> None

OptionNames ==
    {"name_assets", "name_liabilities", "name_equity", "name_income",
     "name_expenses", "title"}

OptionValues == {S_Activa, S_Equity}

Options == {BcOption(n, v) : n \in OptionNames, v \in OptionValues}

-----------------------------------------------------------------------------
(* CostSpec, Posting, Transaction *)

\* CostSpec::builder().number_per(n).currency(c).build()
CostSpec(number_per, number_total, currency) ==
    [number_per |-> number_per, number_total |-> number_total,
     currency |-> currency, date |-> None, label |-> None,
     merge_cost |-> FALSE]

\* Posting::builder().account(a).units(u).cost(c).price(p).build()
Posting(account, units, cost, price) ==
    [account |-> account, units |-> units, cost |-> cost, price |-> price,
     flag |-> None, meta |-> << >>]

\* Transaction::builder().date(d).narration(n).postings(ps).build()
Transaction(date, narration, postings) ==
    [kind |-> "Transaction", date |-> date, flag |-> "Okay", payee |-> None,
     narration |-> narration, tags |-> {}, links |-> {},
     postings |-> postings]

\* The numbers a posting is written with: whole units or none at all (the
\* amount left out), costs and prices of either sign.
PostingUnits ==
    {IncompleteAmount(Some(Dec(m, 0)), Some("USD")) : m \in {-1, 1}}
    \cup {IncompleteAmount(None, None)}

PostingCosts ==
    {None}
    \cup {Some(CostSpec(Some(Dec(m, 0)), None, Some("CAD"))) : m \in {-1, 1}}
    \cup {Some(CostSpec(None, Some(Dec(m, 0)), Some("CAD"))) : m \in {-1, 1}}

PostingPrices ==
    {None} \cup {Some(IncompleteAmount(Some(Dec(m, 0)), Some("CAD"))) : m \in {-1, 1}}

Postings ==
    {Posting(Account("Assets", <<S_Cash>>), u, c, p) :
        u \in PostingUnits, c \in PostingCosts, p \in PostingPrices}

Transactions ==
    {Transaction(Date_from_str_unchecked(DateText([y |-> 2014, m |-> 2, d |-> 3], "-")),
                 "", ps) :
        ps \in SeqsUpTo(Postings, MaxPostings)}

-----------------------------------------------------------------------------
(* Balance and Open *)

\* Balance::builder().date(d).account(a).amount(x).build()
Balance(date, account, amount) ==
    [kind |-> "Balance", date |-> date, account |-> account,
     amount |-> amount, tolerance |-> None]

\* Open::builder().date(d).account(a).build()
Open(date, account) ==
    [kind |-> "Open", date |-> date, account |-> account,
     currencies |-> << >>, booking |-> None]

\* Directives with a date, on two consecutive days.
DirectiveDates ==
    {Date_from_str_unchecked(DateText([y |-> 2014, m |-> 2, d |-> dd], "-")) :
        dd \in {3, 4}}

DatedDirectives ==
    {Balance(d, Account("Assets", <<S_Cash>>), Amount(Dec(1, 0), "USD")) :
        d \in DirectiveDates}
    \cup {Open(d, Account("Assets", <<S_Cash>>)) : d \in DirectiveDates}
    \cup {Transaction(d, "", << >>) : d \in DirectiveDates}

-----------------------------------------------------------------------------
(* Ledger *)

\* Ledger::default()
Ledger_default == [directives |-> << >>]

\* Ledger::builder().directives(ds).build()
Ledger_build(ds) == [directives |-> ds]

Directives == Options \cup Transactions

-----------------------------------------------------------------------------
(* The text of a Balance *)

\* Balance::builder().date(d).account(a).amount(x).tolerance(t).build()
Balance_with_tolerance(date, account, amount, tolerance) ==
    [kind |-> "Balance", date |-> date, account |-> account,
     amount |-> amount, tolerance |-> tolerance]

\* The characters of a Currency, which is a String.
Currency_chars(c) ==
    CASE c = "USD" -> <<"U", "S", "D">>
      [] c = "CAD" -> <<"C", "A", "D">>

\* Decimal's Display: a minus sign for a negative number, the integer
\* digits, and after a point as many fraction digits as the scale.
Decimal_to_string(d) ==
    LET a    == IF d.m < 0 THEN -d.m ELSE d.m
        int  == Digits(a \div Pow10(d.s))
        frac == IF d.s = 0 THEN << >>
                ELSE <<".">> \o ZeroPad(Digits(a % Pow10(d.s)), d.s)
    IN  (IF d.m < 0 THEN <<"-">> ELSE << >>) \o int \o frac

\* Display of Amount: "<num> <currency>"
Amount_to_string(a) ==
    Decimal_to_string(a.num) \o <<" ">> \o Currency_chars(a.currency)

\* impl Display for Date: the text it holds
Date_to_string(d) == d

Balance_to_string_WithTolerance(b) ==
    Date_to_string(b.date) \o <<" ", "b", "a", "l", "a", "n", "c", "e", " ">>
        \o Account_to_string(b.account) \o <<" ">> \o Amount_to_string(b.amount)
        \o (IF IsSome(b.tolerance)
            THEN <<" ", "~", " ">> \o Decimal_to_string(b.tolerance[1])
            ELSE << >>)

\* impl Display for Balance: "{} balance {} {}" of date, account, amount
Balance_to_string(b) ==
    Date_to_string(b.date) \o <<" ", "b", "a", "l", "a", "n", "c", "e", " ">>
        \o Account_to_string(b.account) \o <<" ">> \o Amount_to_string(b.amount)

BalanceAccounts ==
    {Account("Assets", << >>), Account("Assets", <<S_Cash>>),
     Account("Liabilities", <<<<"U", "S">>, S_Cash>>)}

Tolerances == {None, Some(Dec(1, 1))}

\* Balances with and without a tolerance.
Balances ==
    {Balance_with_tolerance(d, a, x, tol) :
        d \in DirectiveDates, a \in BalanceAccounts, x \in Amounts,
        tol \in Tolerances}
    \cup {Balance(d, a, x) :
             d \in DirectiveDates, a \in BalanceAccounts, x \in Amounts}

-----------------------------------------------------------------------------
(* Operations on the value types.  The arguments of a call are drawn when   *)
(* the behaviour starts; the operation computes its result from them.       *)

NoCall == [op |-> "none"]

Init ==
    /\ call = NoCall
    /\ ledger = Ledger_default
    /\ \/ arg \in {[for |-> "Amount::partial_cmp", a |-> a, b |-> b] :
                      a \in Amounts, b \in Amounts}
       \/ arg \in {[for |-> "Amount::try_from", x |-> x] : x \in IncompleteAmounts}
       \/ arg \in {[for |-> "IncompleteAmount::from", a |-> a] : a \in Amounts}
       \/ arg \in {[for |-> "Account::from", s |-> s] : s \in AccountNames}
       \/ arg \in {[for |-> "Booking::try_from", token |-> t] : t \in BookingTokens}
       \/ arg \in {[for |-> "Date::cmp", i1 |-> i1, i2 |-> i2] :
                      i1 \in DateInputs, i2 \in DateInputs}
       \/ arg \in {[for |-> "Balance::to_string", b |-> b] : b \in Balances}
       \/ arg \in {[for |-> "Account::to_string", a |-> a] : a \in BuiltAccounts}

\* a.partial_cmp(&b)
AmountPartialCmp ==
    /\ arg.for = "Amount::partial_cmp"
    /\ call' = [op |-> "Amount::partial_cmp",
                res |-> Amount_partial_cmp(arg.a, arg.b)]
    /\ UNCHANGED <<arg, ledger>>

\* Amount::try_from(x)
AmountTryFrom ==
    /\ arg.for = "Amount::try_from"
    /\ call' = [op |-> "Amount::try_from", res |-> Amount_try_from(arg.x)]
    /\ UNCHANGED <<arg, ledger>>

\* IncompleteAmount::from(a)
IncompleteAmountFrom ==
    /\ arg.for = "IncompleteAmount::from"
    /\ call' = [op |-> "IncompleteAmount::from",
                res |-> IncompleteAmount_from(arg.a)]
    /\ UNCHANGED <<arg, ledger>>

\* Amount::try_from(i) for the IncompleteAmount i that IncompleteAmount::from
\* just returned
AmountTryFromBack ==
    /\ call.op = "IncompleteAmount::from"
    /\ call' = [op |-> "Amount::try_from(IncompleteAmount::from)",
                res |-> Amount_try_from(call.res)]
    /\ UNCHANGED <<arg, ledger>>

\* Account::from(s)
AccountFrom ==
    /\ arg.for = "Account::from"
    /\ call' = [op |-> "Account::from", res |-> Account_from(arg.s)]
    /\ UNCHANGED <<arg, ledger>>

\* a.to_string() for the Account a that Account::from just returned
AccountToString ==
    /\ call.op = "Account::from"
    /\ call.res.kind = "Ok"
    /\ call' = [op |-> "Account::to_string",
                res |-> Account_to_string(call.res.value)]
    /\ UNCHANGED <<arg, ledger>>

\* Booking::try_from(token)
BookingTryFrom ==
    /\ arg.for = "Booking::try_from"
    /\ call' = [op |-> "Booking::try_from", res |-> Booking_try_from(arg.token)]
    /\ UNCHANGED <<arg, ledger>>

\* Two Dates are made and compared: d1.cmp(&d2)
DateCmp ==
    /\ arg.for = "Date::cmp"
    /\ call' = [op |-> "Date::cmp",
                d1 |-> MakeDate(arg.i1), d2 |-> MakeDate(arg.i2),
                res |-> Date_cmp(MakeDate(arg.i1), MakeDate(arg.i2))]
    /\ UNCHANGED <<arg, ledger>>

\* b.to_string() of a Balance
BalanceToString ==
    /\ arg.for = "Balance::to_string"
    /\ call' = [op |-> "Balance::to_string", res |-> Balance_to_string(arg.b)]
    /\ UNCHANGED <<arg, ledger>>

\* a.to_string() of an Account made with the builder
BuiltAccountToString ==
    /\ arg.for = "Account::to_string"
    /\ call' = [op |-> "a.to_string()", res |-> Account_to_string(arg.a)]
    /\ UNCHANGED <<arg, ledger>>

\* Account::from(text) for the text that a.to_string() just returned
AccountFromBack ==
    /\ call.op = "a.to_string()"
    /\ call' = [op |-> "Account::from(a.to_string())",
                res |-> Account_from(call.res)]
    /\ UNCHANGED <<arg, ledger>>

Next ==
    \/ AmountPartialCmp
    \/ AmountTryFrom
    \/ IncompleteAmountFrom
    \/ AmountTryFromBack
    \/ AccountFrom
    \/ AccountToString
    \/ BookingTryFrom
    \/ DateCmp
    \/ BalanceToString
    \/ BuiltAccountToString
    \/ AccountFromBack

Spec == Init /\ [][Next]_vars

-----------------------------------------------------------------------------
(* A ledger takes directives one by one; account names are looked up while  *)
(* it holds them.                                                           *)

LedgerAccountNames ==
    {h \o t : h \in NameHeads, t \in {<< >>, <<Colon, "U">>}}

InitLedger ==
    /\ call = NoCall
    /\ ledger = Ledger_default
    /\ arg \in {[for |-> "Account::from", s |-> s] : s \in LedgerAccountNames}

\* A ledger with one more directive is built.
AddDirective ==
    /\ Len(ledger.directives) < MaxDirectives
    /\ \E d \in Directives :
          ledger' = Ledger_build(Append(ledger.directives, d))
    /\ UNCHANGED <<arg, call>>

NextLedger ==
    \/ AddDirective
    \/ AccountFrom

SpecLedger == InitLedger /\ [][NextLedger]_vars

-----------------------------------------------------------------------------
(* A ledger of dated directives, in the order they are supplied. *)

InitDated ==
    /\ call = NoCall
    /\ ledger = Ledger_default
    /\ arg = [for |-> "none"]

\* A ledger with one more dated directive is built.
AddDated ==
    /\ Len(ledger.directives) < MaxDated
    /\ \E d \in DatedDirectives :
          ledger' = Ledger_build(Append(ledger.directives, d))
    /\ UNCHANGED <<arg, call>>

NextDated == AddDated

SpecDated == InitDated /\ [][NextDated]_vars

-----------------------------------------------------------------------------
(* Properties of the value types, under Spec *)

\* The name starts with a root name that ends the name or is followed by ':'.
HasRootHead(s) ==
    \E t \in AccountTypes :
        LET r == default_name(t)
        IN  /\ Len(s) >= Len(r)
            /\ SubSeq(s, 1, Len(r)) = r
            /\ (Len(s) = Len(r) \/ s[Len(r) + 1] = Colon)

\* C1: a.partial_cmp(b) is Some(the order of a.num against b.num) when the two
\* currencies are equal, and None when they differ.
C1_PartialCmpByCurrency ==
    call.op = "Amount::partial_cmp" =>
        LET x == arg.a.num.m * Pow10(arg.b.num.s)
            y == arg.b.num.m * Pow10(arg.a.num.s)
        IN  IF arg.a.currency = arg.b.currency
            THEN call.res = Some(IF x < y THEN "Less"
                                 ELSE IF x > y THEN "Greater" ELSE "Equal")
            ELSE call.res = None

\* C1 witness: two Amounts of different currencies and different numbers were
\* compared and the answer was None.
C1_Witness ==
    /\ call.op = "Amount::partial_cmp"
    /\ arg.a.currency # arg.b.currency
    /\ arg.a.num.m < arg.b.num.m
    /\ arg.a.num.s = arg.b.num.s
    /\ call.res = None

\* C2: Amount::try_from(x) is Ok with x's number and currency exactly when both
\* are present and an error otherwise; IncompleteAmount::from(a) has both
\* fields present with a's values; try_from(from(a)) is Ok(a).
C2_TryFromRoundTrip ==
    /\ call.op = "Amount::try_from" =>
          IF Len(arg.x.num) = 1 /\ Len(arg.x.currency) = 1
          THEN call.res = [kind |-> "Ok",
                           value |-> [num |-> arg.x.num[1],
                                      currency |-> arg.x.currency[1]]]
          ELSE call.res = [kind |-> "Err"]
    /\ call.op = "IncompleteAmount::from" =>
          call.res = [num |-> <<arg.a.num>>, currency |-> <<arg.a.currency>>]
    /\ call.op = "Amount::try_from(IncompleteAmount::from)" =>
          call.res = [kind |-> "Ok", value |-> arg.a]

\* C2 witness: an Amount went to an IncompleteAmount and back.
C2_Witness ==
    /\ call.op = "Amount::try_from(IncompleteAmount::from)"
    /\ call.res.kind = "Ok"
    /\ call.res.value.num = Dec(-10, 1)

\* C3: for a name whose first segment is a root name, Account::from succeeds
\* and the Account's to_string is the name again; a bare root name comes back
\* without a colon.
C3_AccountNameRoundTrip ==
    (arg.for = "Account::from" /\ HasRootHead(arg.s)) =>
        /\ call.op = "Account::from" => call.res.kind = "Ok"
        /\ call.op = "Account::to_string" => call.res = arg.s

\* C3 witness: the bare root name "Assets" was parsed and rendered.
C3_Witness ==
    /\ call.op = "Account::to_string"
    /\ arg.s = S_Assets
    /\ call.res = S_Assets

\* C4: Account::from of a name whose first segment is no root name returns an
\* InvalidAccountType error to the caller.
C4_InvalidAccountTypeReturned ==
    (call.op = "Account::from" /\ ~HasRootHead(arg.s)) => call.res.kind = "Err"

\* C5: Booking::try_from succeeds exactly for the six tokens, each giving the
\* booking method of its name, and fails for every other string.
C5_BookingTokens ==
    call.op = "Booking::try_from" =>
        LET method == [STRICT |-> "Strict", STRICT_WITH_SIZE |-> "StrictWithSize",
                       NONE |-> "None", AVERAGE |-> "Average",
                       FIFO |-> "Fifo", LIFO |-> "Lifo"]
        IN  IF arg.token \in DOMAIN method
            THEN call.res = [kind |-> "Ok", value |-> method[arg.token]]
            ELSE call.res = [kind |-> "Err"]

\* C5 witness: the token FIFO was converted.
C5_Witness ==
    /\ call.op = "Booking::try_from"
    /\ arg.token = "FIFO"
    /\ call.res.kind = "Ok"

\* C6: two Dates compare as the calendar days they denote: less iff the first
\* day is earlier, equal iff the days are the same.
C6_DateOrderIsCalendarOrder ==
    call.op = "Date::cmp" =>
        LET c1 == arg.i1.day
            c2 == arg.i2.day
            earlier ==
                \/ c1.y < c2.y
                \/ c1.y = c2.y /\ c1.m < c2.m
                \/ c1.y = c2.y /\ c1.m = c2.m /\ c1.d < c2.d
        IN  /\ (call.res = "Less") <=> earlier
            /\ (call.res = "Equal") <=> (c1 = c2)

-----------------------------------------------------------------------------
(* Properties of the ledger, under SpecLedger *)

\* C7: when the ledger holds an option that renames the root of an account
\* type to X, Account::from of a name whose first segment is X gives an
\* account of that type.
C7_RootNameOverride ==
    \A i \in DOMAIN ledger.directives :
        LET d == ledger.directives[i]
        IN  (/\ d.kind = "Option"
             /\ root_name_change(d) # None
             /\ call.op = "Account::from"
             /\ LET x == root_name_change(d)[1][2]
                IN  /\ Len(arg.s) >= Len(x)
                    /\ SubSeq(arg.s, 1, Len(x)) = x
                    /\ (Len(arg.s) = Len(x) \/ arg.s[Len(x) + 1] = Colon))
            => /\ call.res.kind = "Ok"
               /\ call.res.value.account_type = root_name_change(d)[1][1]

\* C9: no posting of a transaction the ledger holds has a negative cost number
\* (per unit or total) or a negative price number.
C9_NoNegativeCostOrPrice ==
    \A i \in DOMAIN ledger.directives :
        LET d == ledger.directives[i]
        IN  d.kind = "Transaction" =>
                \A j \in DOMAIN d.postings :
                    LET p == d.postings[j]
                    IN  /\ (Len(p.cost) = 1 /\ Len(p.cost[1].number_per) = 1)
                               => p.cost[1].number_per[1].m >= 0
                        /\ (Len(p.cost) = 1 /\ Len(p.cost[1].number_total) = 1)
                               => p.cost[1].number_total[1].m >= 0
                        /\ (Len(p.price) = 1 /\ Len(p.price[1].num) = 1)
                               => p.price[1].num[1].m >= 0

\* The largest scale the units of the postings are written with.
RECURSIVE UnitsScale(_)
UnitsScale(ps) ==
    IF Len(ps) = 0 THEN 0
    ELSE LET rest == UnitsScale(Tail(ps))
             here == ps[1].units.num[1].s
         IN  IF here > rest THEN here ELSE rest

\* The sum, in units of 10^(-sc), of the units of the postings in currency c.
RECURSIVE UnitsSum(_, _, _)
UnitsSum(ps, c, sc) ==
    IF Len(ps) = 0 THEN 0
    ELSE (IF ps[1].units.currency = Some(c)
          THEN ps[1].units.num[1].m * Pow10(sc - ps[1].units.num[1].s)
          ELSE 0) + UnitsSum(Tail(ps), c, sc)

\* C10: a transaction the ledger holds balances: when every posting has its
\* units and neither cost nor price (the weight is the units), the units of
\* each currency sum to zero within half of the smallest unit written.
C10_TransactionsBalance ==
    \A i \in DOMAIN ledger.directives :
        LET d == ledger.directives[i]
        IN  (/\ d.kind = "Transaction"
             /\ \A j \in DOMAIN d.postings :
                    /\ Len(d.postings[j].units.num) = 1
                    /\ Len(d.postings[j].units.currency) = 1
                    /\ d.postings[j].cost = None
                    /\ d.postings[j].price = None)
            => \A c \in Currencies :
                   LET sum == UnitsSum(d.postings, c, UnitsScale(d.postings))
                   IN  2 * sum <= 1 /\ 2 * sum >= -1

\* C13: no transaction the ledger holds has more than one posting whose
\* units.num is missing.
C13_AtMostOneMissingUnits ==
    \A i \in DOMAIN ledger.directives :
        LET d == ledger.directives[i]
        IN  d.kind = "Transaction" =>
                Cardinality({j \in DOMAIN d.postings :
                                Len(d.postings[j].units.num) = 0}) <= 1

-----------------------------------------------------------------------------
(* Properties of a ledger of dated directives, under SpecDated *)

\* C19: the directives of the ledger are in ascending date order, and among
\* directives of one date every Balance comes before every Transaction.
C19_LedgerSorted ==
    \A i \in DOMAIN ledger.directives : \A j \in DOMAIN ledger.directives :
        i < j =>
            LET a == ledger.directives[i]
                b == ledger.directives[j]
            IN  /\ Date_cmp(a.date, b.date) # "Greater"
                /\ ~(/\ Date_cmp(a.date, b.date) = "Equal"
                     /\ a.kind = "Transaction"
                     /\ b.kind = "Balance")

-----------------------------------------------------------------------------
(* Properties of rendered text, under Spec *)

HasColon(p) == \E i \in 1..Len(p) : p[i] = Colon

\* The parts that come back when every part is split at its separators.
RECURSIVE SplitEach(_)
SplitEach(ps) ==
    IF Len(ps) = 0 THEN << >> ELSE Split(Head(ps)) \o SplitEach(Tail(ps))

\* C21: the text of a Balance is its date, the word balance, the colon-joined
\* full account name and the amount as "<num> <currency>", each separated by
\* one space; the number has a minus sign exactly when it is negative and as
\* many decimal places as it was given; a tolerance is not rendered.
C21_BalanceDisplay ==
    call.op = "Balance::to_string" =>
        LET b    == arg.b
            full == Join(<<default_name(b.account.account_type)>> \o b.account.parts)
            num  == Decimal_to_string(b.amount.num)
            sc   == b.amount.num.s
        IN  /\ call.res = b.date \o <<" ">> \o <<"b", "a", "l", "a", "n", "c", "e">>
                              \o <<" ">> \o full \o <<" ">> \o num \o <<" ">>
                              \o Currency_chars(b.amount.currency)
            /\ (num[1] = "-") <=> (b.amount.num.m < 0)
            /\ IF sc = 0 THEN \A i \in 1..Len(num) : num[i] # "."
               ELSE /\ Len(num) > sc + 1
                    /\ num[Len(num) - sc] = "."
                    /\ \A i \in 1..Len(num) : i # Len(num) - sc => num[i] # "."
            /\ call.res = Balance_to_string(Balance(b.date, b.account, b.amount))

\* C21 witness: a Balance with a tolerance, a negative number with a decimal
\* place and an account with parts was rendered.
C21_Witness ==
    /\ call.op = "Balance::to_string"
    /\ IsSome(arg.b.tolerance)
    /\ arg.b.amount = Amount(Dec(-10, 1), "USD")
    /\ arg.b.account = Account("Liabilities", <<<<"U", "S">>, S_Cash>>)
    /\ SubSeq(call.res, Len(call.res) - 7, Len(call.res))
           = <<"-", "1", ".", "0", " ", "U", "S", "D">>

\* C30: for an Account a made with the builder, Account::from(a.to_string())
\* is a when no part of a holds ':' (a may have no parts, or empty parts); when
\* a part holds ':' the result is another Account, of the same type, in which
\* that part is split into several parts.
C30_BuiltAccountRoundTrip ==
    call.op = "Account::from(a.to_string())" =>
        IF \A i \in DOMAIN arg.a.parts : ~HasColon(arg.a.parts[i])
        THEN call.res = [kind |-> "Ok", value |-> arg.a]
        ELSE /\ call.res.kind = "Ok"
             /\ call.res.value # arg.a
             /\ call.res.value.account_type = arg.a.account_type
             /\ call.res.value.parts = SplitEach(arg.a.parts)
             /\ Len(call.res.value.parts) > Len(arg.a.parts)

\* C30 witness: the Account with the parts "" and "U:s" came back with the
\* parts "", "U" and "s".
C30_Witness ==
    /\ call.op = "Account::from(a.to_string())"
    /\ arg.a = Account("Assets", <<<< >>, <<"U", Colon, "s">>>>)
    /\ call.res.kind = "Ok"
    /\ call.res.value = Account("Assets", <<<< >>, <<"U">>, <<"s">>>>)

=============================================================================
